---- MODULE Spec2Model ----
(***************************************************************************)
(* Wallet ledger of the Pickovo backend: the wallets and                   *)
(* wallet_transactions tables, the stored procedure update_wallet_balance  *)
(* (run by PostgREST as one READ COMMITTED transaction per rpc call), and  *)
(* the GET /wallet and POST /wallet handlers, together with the wallet     *)
(* inserts of registration and social login.                               *)
(*                                                                         *)
(* Money is counted in units of 0.0025 (a quarter of a cent), so that      *)
(* values with more than two fractional digits and the rounding of the     *)
(* DECIMAL(10,2) columns, up and down, are representable: 1.00 is Scale    *)
(* units, 0.01 is Cent units.                                              *)
(***************************************************************************)
EXTENDS Integers, Sequences, FiniteSets, TLC

\* ---------------------------------------------------------------- bounds
NumProcs == 2      \* request slots served concurrently
MaxRequests == 2   \* requests accepted in one behaviour
MaxSeqRequests == 4   \* calls made one after the other in SpecSeq
MaxApiRequests == 4   \* requests made one after the other in SpecApi
MaxEngineCalls == 3   \* direct calls of update_wallet_balance in SpecEngine
MaxBookingRequests == 3   \* requests on bookings in SpecBooking

\* ------------------------------------------------------------- constants
Scale == 400          \* units of 0.0025 in 1.00: the columns keep 2 decimals
Cent == Scale \div 100         \* 0.01
HalfCent == Scale \div 200     \* 0.005
QuarterCent == Scale \div 400  \* 0.0025
DefaultLimit == 10    \* const { limit = 10, offset = 0 } = req.query
DefaultOffset == 0

Users == {"u1", "u2"}
Procs == 1..NumProcs

\* ------------------------------------------------------ JavaScript values
\* A JSON value of a request body: one record shape for every type.
JSVal(t, n, s, b) == [t |-> t, n |-> n, s |-> s, b |-> b]
Undefined == JSVal("undefined", 0, "", FALSE)
Null == JSVal("null", 0, "", FALSE)
Num(k) == JSVal("number", k, "", FALSE)
Str(x) == JSVal("string", 0, x, FALSE)
Bool(x) == JSVal("boolean", 0, "", x)
\* The text of uuid number k, as a caller sends it in reference_id.
UuidStr(k) == JSVal("string", k, "uuid", FALSE)

\* A JavaScript number: NaN, or a count of units.
NaN == [nan |-> TRUE, n |-> 0]
Number_(k) == [nan |-> FALSE, n |-> k]

\* Number(string) on the strings the model sends: the empty string is 0, a
\* decimal literal is its value, anything else is NaN.
StringToNumber(s) ==
  CASE s = "" -> Number_(0)
    [] s = "0" -> Number_(0)
    [] s = "1" -> Number_(Scale)
    [] s = "2" -> Number_(2 * Scale)
    [] s = "-10" -> Number_(-10 * Scale)
    [] OTHER -> NaN

\* Number(v)
ToNumber(v) ==
  CASE v.t = "undefined" -> NaN
    [] v.t = "null" -> Number_(0)
    [] v.t = "boolean" -> IF v.b THEN Number_(Scale) ELSE Number_(0)
    [] v.t = "number" -> Number_(v.n)
    [] v.t = "string" -> StringToNumber(v.s)

\* !v is ~ToBoolean(v)
ToBoolean(v) ==
  CASE v.t = "undefined" -> FALSE
    [] v.t = "null" -> FALSE
    [] v.t = "boolean" -> v.b
    [] v.t = "number" -> v.n # 0
    [] v.t = "string" -> v.s # ""

\* a || b
OrElse(a, b) == IF ToBoolean(a) THEN a ELSE b

\* String.prototype.includes on strings kept as sequences of characters.
Includes(s, sub) ==
  \E i \in 0..(Len(s) - Len(sub)) : SubSeq(s, i + 1, i + Len(sub)) = sub

\* ------------------------------------------------------------ error texts
\* RAISE EXCEPTION 'Insufficient funds: current balance % is less than ...':
\* the text up to the first parameter.
MsgInsufficientFunds ==
  <<"I","n","s","u","f","f","i","c","i","e","n","t"," ","f","u","n","d","s",
    ":"," ","c","u","r","r","e","n","t"," ","b","a","l","a","n","c","e">>
\* unique_violation on wallets_pkey
MsgDuplicateKey ==
  <<"d","u","p","l","i","c","a","t","e"," ","k","e","y">>
\* any other failure of a storage call (connection lost, timeout, foreign key
\* violation for a user with no profiles row, numeric overflow)
MsgStorageFailure ==
  <<"s","t","o","r","a","g","e"," ","f","a","i","l","u","r","e">>
\* RAISE EXCEPTION 'Invalid transaction type: must be credit or debit'
MsgInvalidType ==
  <<"I","n","v","a","l","i","d"," ","t","r","a","n","s","a","c","t","i","o","n",
    " ","t","y","p","e">>
\* check_violation on wallets_balance_check
MsgCheckViolation ==
  <<"v","i","o","l","a","t","e","s"," ","c","h","e","c","k">>
\* the text the POST handler looks for
InsufficientFundsNeedle ==
  <<"i","n","s","u","f","f","i","c","i","e","n","t"," ","f","u","n","d","s">>

NoError == <<>>

\* ---------------------------------------------------------- authentication
\* An Authorization header is kept as its sequence of characters; an absent
\* header is the empty sequence (both are falsy).
BearerPrefix == <<"B","e","a","r","e","r"," ">>

\* authHeader.startsWith(prefix)
StartsWith(s, prefix) ==
  Len(s) >= Len(prefix) /\ SubSeq(s, 1, Len(prefix)) = prefix

\* authHeader.split(' ')[1]: the characters between the first space and the
\* next one, the empty sequence when there is nothing after the first space
\* (and, as undefined is falsy too, when there is no space at all).
SplitSecond(s) ==
  LET spaces == {i \in DOMAIN s : s[i] = " "}
  IN IF spaces = {} THEN <<>>
     ELSE LET first == CHOOSE i \in spaces : \A j \in spaces : i <= j
              later == {i \in spaces : i > first}
              stop == IF later = {} THEN Len(s) + 1
                      ELSE CHOOSE i \in later : \A j \in later : i <= j
          IN SubSeq(s, first + 1, stop - 1)

\* userId of a request that is not authenticated (null)
NoUser == "null"

\* supabase.auth.getUser(token): the sessions the identity provider knows;
\* any other token is an error.
Sessions == {[token |-> <<"t","1">>, user |-> "u1"],
             [token |-> <<"t","2">>, user |-> "u2"]}

GetUser(token) ==
  IF \E x \in Sessions : x.token = token
  THEN (CHOOSE x \in Sessions : x.token = token).user
  ELSE NoUser

\* The Bearer prefix is not required: any second word is taken as the token.
GetUserFromAnyScheme(authorization) ==
  IF authorization = <<>> THEN NoUser
  ELSE IF SplitSecond(authorization) = <<>> THEN NoUser
  ELSE GetUser(SplitSecond(authorization))

\* getUserFromRequest(req)
GetUserFromRequest(authorization) ==
  IF authorization = <<>> \/ ~StartsWith(authorization, BearerPrefix)
  THEN NoUser
  ELSE IF SplitSecond(authorization) = <<>> THEN NoUser
  ELSE GetUser(SplitSecond(authorization))

\* Authorization headers sent: none, another scheme, no token, an unknown
\* token, and the tokens of the two users.
AuthInputs ==
  {<<>>,
   <<"B","a","s","i","c"," ","t","1">>,
   BearerPrefix,
   BearerPrefix \o <<"x">>,
   BearerPrefix \o <<"t","1">>,
   BearerPrefix \o <<"t","2">>}

\* ------------------------------------------------------------------ state
VARIABLES
  wallets,              \* committed rows of table wallets, in insertion order
  wallet_transactions,  \* committed rows of table wallet_transactions
  proc,                 \* per request slot: the request in flight and its locals
  now,                  \* the database clock: transactions begun so far
  uuids,                \* identifiers drawn from gen_random_uuid() and uuidv4()
  requests,             \* requests accepted so far
  bookings,             \* rows of table bookings, by id
  notifications,        \* rows of table notifications, in insertion order
  calls                 \* per slot: the request on a booking in flight

\* The state of the booking endpoints, which no wallet operation touches.
bvars == <<bookings, notifications, calls>>

vars == <<wallets, wallet_transactions, proc, now, uuids, requests, bvars>>

\* ----------------------------------------------------------------- tables
\* DECIMAL(10,2): a value is rounded to two decimals, half away from zero.
Round2(x) ==
  IF x >= 0 THEN ((x + HalfCent) \div Cent) * Cent
  ELSE -((((-x) + HalfCent) \div Cent) * Cent)

\* An overdraft of 1.00 is let through.
NonNegativeOverdraft(b) == b >= -Scale

\* CHECK (balance >= 0)
NonNegative(b) == b >= 0

WalletRows(w, u) == {i \in DOMAIN w : w[i].user_id = u}
HasWallet(u) == WalletRows(wallets, u) # {}

\* SELECT balance FROM wallets WHERE user_id = u, first row
BalanceIn(w, u) ==
  w[CHOOSE i \in WalletRows(w, u) : \A j \in WalletRows(w, u) : i <= j].balance
BalanceOf(u) == BalanceIn(wallets, u)

\* The table without its primary key.
NoPrimaryKey(u) == FALSE

\* user_id UUID PRIMARY KEY: an insert of a second row for u is refused.
PrimaryKeyViolation(u) == HasWallet(u)

\* INSERT INTO wallets (user_id, balance, ...) VALUES (u, 0, ...)
InsertWallet(w, u) == Append(w, [user_id |-> u, balance |-> Round2(0)])

\* UPDATE wallets SET balance = b WHERE user_id = u
UpdateWallet(w, u, b) ==
  [i \in DOMAIN w |->
     IF w[i].user_id = u THEN [w[i] EXCEPT !.balance = Round2(b)] ELSE w[i]]

\* The new row takes the place of the latest row instead of being appended.
InsertTransactionOverwrite(t, id, u, amount, type, description, reference_id, at) ==
  LET row == [id |-> id, user_id |-> u, amount |-> Round2(amount),
              type |-> type, description |-> description,
              reference_id |-> reference_id, created_at |-> at]
  IN IF t = <<>> THEN <<row>> ELSE [t EXCEPT ![Len(t)] = row]

\* INSERT INTO wallet_transactions (...) VALUES (...)
InsertTransaction(t, id, u, amount, type, description, reference_id, at) ==
  Append(t, [id |-> id, user_id |-> u, amount |-> Round2(amount),
             type |-> type, description |-> description,
             reference_id |-> reference_id, created_at |-> at])

\* .eq('user_id', u) on wallet_transactions
UserTransactions(u) ==
  SelectSeq(wallet_transactions, LAMBDA r : r.user_id = u)

\* .order('created_at', { ascending: false }): insertion sort, later first
RECURSIVE OrderByCreatedAtDesc(_)
OrderByCreatedAtDesc(s) ==
  IF s = <<>> THEN <<>>
  ELSE LET rest == OrderByCreatedAtDesc(Tail(s))
           r == Head(s)
           k == Cardinality({i \in DOMAIN rest : rest[i].created_at > r.created_at})
       IN SubSeq(rest, 1, k) \o <<r>> \o SubSeq(rest, k + 1, Len(rest))

\* The upper end is left out.
RangeExclusive(s, from, to) ==
  SubSeq(s, from + 1, IF to < Len(s) THEN to ELSE Len(s))

\* .range(from, to): rows from..to, counted from 0, both ends included
Range(s, from, to) ==
  SubSeq(s, from + 1, IF to + 1 < Len(s) THEN to + 1 ELSE Len(s))

\* ------------------------------------------------------------ request slots
IdleProc ==
  [pc |-> "idle", method |-> "NONE", authorization |-> <<>>, userId |-> "u1",
   amount |-> Undefined, type |-> Undefined,
   description |-> Undefined, reference_id |-> Undefined,
   limit |-> Undefined, offset |-> Undefined,
   p_amount |-> 0, p_type |-> "", p_description |-> "", p_reference_id |-> 0,
   started |-> 0,
   v_wallet_exists |-> FALSE, v_current_balance |-> 0, v_new_balance |-> 0,
   v_transaction_id |-> 0,
   inserted |-> FALSE, updated |-> FALSE,
   error |-> NoError,
   found |-> FALSE, created |-> FALSE, balance |-> 0,
   transactions |-> <<>>, total |-> 0, countError |-> FALSE,
   pagination_limit |-> 0, pagination_offset |-> 0,
   status |-> 0]

\* A row lock held by another open transaction: its uncommitted insert of u's
\* wallet row makes a second insert of that key wait for its end.
InsertLocked(p, u) ==
  \E q \in Procs \ {p} : proc[q].inserted /\ proc[q].userId = u

\* A lock on the whole wallets table: any open update makes every update wait.
RowLockedAnyUser(p, u) ==
  \E q \in Procs \ {p} : proc[q].updated

\* Its uncommitted UPDATE of u's wallet row makes a second UPDATE wait.
RowLocked(p, u) ==
  \E q \in Procs \ {p} : proc[q].updated /\ proc[q].userId = u

\* Slots are taken lowest first.
Free(p) == proc[p].pc = "idle" /\ \A q \in Procs : q < p => proc[q].pc # "idle"

\* ---------------------------------------------------------------- bookings
BookingIds == {"b1", "b2"}

\* The row POST /bookings inserts: status 'pending', the caller as customer.
NewBooking(customer_id, mechanic_id) ==
  [customer_id |-> customer_id, mechanic_id |-> mechanic_id,
   status |-> "pending", notes |-> Null]

\* Two bookings made earlier: u1 with mechanic u2, and u2 with a mechanic
\* who sends no request. u1 has no part in the second one.
InitialBookings ==
  [id \in BookingIds |-> IF id = "b1" THEN NewBooking("u1", "u2")
                         ELSE NewBooking("u2", "m3")]

\* const validTransitions: Record<string, string[]>
ValidTransitions(status) ==
  CASE status = "pending" -> {"confirmed", "cancelled"}
    [] status = "confirmed" -> {"in_progress", "cancelled"}
    [] status = "in_progress" -> {"completed", "cancelled"}
    [] status = "completed" -> {}
    [] status = "cancelled" -> {}

\* status === 'confirmed' || status === 'in_progress' || status === 'completed'
MechanicOnly == {"confirmed", "in_progress", "completed"}

NoBooking == [customer_id |-> "", mechanic_id |-> "", status |-> ""]

IdleCall ==
  [pc |-> "idle", method |-> "NONE", userId |-> NoUser, id |-> "b1",
   status |-> Undefined, notes |-> Undefined,
   booking |-> NoBooking, isCustomer |-> FALSE, isMechanic |-> FALSE,
   code |-> 0]

Init ==
  /\ wallets = <<>>
  /\ wallet_transactions = <<>>
  /\ proc = [p \in Procs |-> IdleProc]
  /\ now = 0
  /\ uuids = 0
  /\ requests = 0
  /\ bookings = InitialBookings
  /\ notifications = <<>>
  /\ calls = [c \in Procs |-> IdleCall]

\* ------------------------------------------------------------ request inputs
AmountInputs ==
  {Undefined, Num(0), Num(-10 * Scale), Num(HalfCent), Num(Scale),
   Str("abc"), Bool(TRUE)}
TypeInputs == {Undefined, Str("credit"), Str("debit"), Str("refund")}
DescriptionInputs == {Undefined}
ReferenceInputs == {Undefined}
\* GET /wallet is sent without query parameters.
LimitInputs == {Undefined}
OffsetInputs == {Undefined}

\* Bodies that pass the validation, with and without a description and a
\* reference id, and the query parameters of a GET /wallet that pages.
Bodies ==
  {[amount |-> Num(Scale), type |-> Str("credit"),
    description |-> Undefined, reference_id |-> Undefined],
   [amount |-> Num(Scale), type |-> Str("debit"),
    description |-> Undefined, reference_id |-> Undefined],
   [amount |-> Num(Scale), type |-> Str("credit"),
    description |-> Str(""), reference_id |-> UuidStr(90)],
   [amount |-> Num(Scale), type |-> Str("debit"),
    description |-> Str("memo"), reference_id |-> UuidStr(90)],
   [amount |-> Num(HalfCent), type |-> Str("credit"),
    description |-> Str("memo"), reference_id |-> UuidStr(90)],
   [amount |-> Num(HalfCent), type |-> Str("debit"),
    description |-> Str(""), reference_id |-> UuidStr(90)],
   [amount |-> Num(QuarterCent), type |-> Str("credit"),
    description |-> Undefined, reference_id |-> Undefined]}
QueryInputs == {Undefined, Str("1"), Str("2")}

\* ------------------------------------------------------------- withAuth
\* if (!userId) return res.status(401).json({ error: 'Unauthorized' }): the
\* handler is not called.
Unauthorized(p, method, authorization) ==
  /\ Free(p)
  /\ GetUserFromRequest(authorization) = NoUser
  /\ requests' = requests + 1
  /\ proc' = [proc EXCEPT ![p] = [IdleProc EXCEPT !.method = method,
                                                 !.authorization = authorization,
                                                 !.userId = NoUser,
                                                 !.status = 401,
                                                 !.pc = "done"]]
  /\ UNCHANGED <<bvars, wallets, wallet_transactions, now, uuids>>

\* ------------------------------------------------- POST /wallet: validation
\* if (!amount || !type)
MissingFields(amount, type) == ~ToBoolean(amount) \/ ~ToBoolean(type)

\* if (type !== 'credit' && type !== 'debit')
InvalidType(type) == type # Str("credit") /\ type # Str("debit")

\* if (isNaN(numAmount) || numAmount <= 0)
InvalidAmount(numAmount) == numAmount.nan \/ numAmount.n <= 0

\* The two default descriptions change places.
DescriptionOrDefaultSwapped(description, type) ==
  OrElse(description,
         IF type = Str("credit") THEN Str("Wallet deduction")
         ELSE Str("Wallet top-up")).s

\* description || (type === 'credit' ? 'Wallet top-up' : 'Wallet deduction')
DescriptionOrDefault(description, type) ==
  OrElse(description,
         IF type = Str("credit") THEN Str("Wallet top-up")
         ELSE Str("Wallet deduction")).s

\* No identifier is generated: an absent reference id is passed on as NULL.
ReferenceOrNull(reference_id, fresh) ==
  IF ToBoolean(reference_id) THEN reference_id.n ELSE 0

\* reference_id || uuidv4(); identifiers are numbers from 1, NULL is 0
ReferenceOrGenerated(reference_id, fresh) ==
  IF ToBoolean(reference_id) THEN reference_id.n ELSE fresh

\* The handler up to the rpc call: a request that fails validation is
\* answered at once, a valid one becomes a call of update_wallet_balance.
PostRequest(p, authorization, u, amount, type, description, reference_id) ==
  /\ Free(p)
  /\ requests' = requests + 1
  /\ LET r == [IdleProc EXCEPT !.method = "POST", !.userId = u,
                               !.authorization = authorization,
                               !.amount = amount, !.type = type,
                               !.description = description,
                               !.reference_id = reference_id]
         numAmount == ToNumber(amount)
         rejected == \/ MissingFields(amount, type)
                     \/ InvalidType(type)
                     \/ InvalidAmount(numAmount)
         generated == ~ToBoolean(reference_id)
     IN IF rejected
        THEN /\ proc' = [proc EXCEPT ![p] = [r EXCEPT !.pc = "done", !.status = 400]]
             /\ uuids' = uuids
        ELSE /\ proc' = [proc EXCEPT ![p] =
                  [r EXCEPT !.pc = "rpc_exists",
                            !.p_amount = numAmount.n,
                            !.p_type = type.s,
                            !.p_description = DescriptionOrDefault(description, type),
                            !.p_reference_id =
                               ReferenceOrGenerated(reference_id, uuids + 1)]]
             /\ uuids' = IF generated THEN uuids + 1 ELSE uuids
  /\ UNCHANGED <<bvars, wallets, wallet_transactions, now>>

\* --------------------------------------------------- update_wallet_balance
\* The wallet insert of the call outlives its failure.
RollbackKeepsInsert(p) ==
  <<IF proc[p].inserted THEN InsertWallet(wallets, proc[p].userId) ELSE wallets,
    wallet_transactions>>

\* The balance update of the call outlives its failure.
RollbackKeepsUpdate(p) ==
  <<IF proc[p].updated
    THEN UpdateWallet(IF proc[p].inserted
                      THEN InsertWallet(wallets, proc[p].userId) ELSE wallets,
                      proc[p].userId, proc[p].v_new_balance)
    ELSE wallets,
    wallet_transactions>>

\* The tables as an aborted transaction leaves them: an exception raised in
\* the function undoes every statement the call has run.
Rollback(p) == <<wallets, wallet_transactions>>

\* The failure of the call commits the wallet row the call has inserted.
AbortKeepsWallet(p, message) ==
  /\ proc' = [proc EXCEPT ![p] = [@ EXCEPT !.pc = "post_respond",
                                          !.inserted = FALSE,
                                          !.updated = FALSE,
                                          !.error = message]]
  /\ wallets' = IF proc[p].inserted
                THEN InsertWallet(wallets, proc[p].userId) ELSE wallets
  /\ wallet_transactions' = Rollback(p)[2]
  /\ UNCHANGED <<bvars, now, uuids, requests>>

Abort(p, message) ==
  /\ proc' = [proc EXCEPT ![p] = [@ EXCEPT !.pc = "post_respond",
                                          !.inserted = FALSE,
                                          !.updated = FALSE,
                                          !.error = message]]
  /\ wallets' = Rollback(p)[1]
  /\ wallet_transactions' = Rollback(p)[2]
  /\ UNCHANGED <<bvars, now, uuids, requests>>

\* SELECT EXISTS(SELECT 1 FROM wallets WHERE user_id = p_user_id)
RpcExists(p) ==
  /\ proc[p].pc = "rpc_exists"
  /\ now' = now + 1
  /\ proc' = [proc EXCEPT ![p] =
       [@ EXCEPT !.started = now + 1,
                 !.v_wallet_exists = HasWallet(proc[p].userId),
                 !.pc = IF HasWallet(proc[p].userId) THEN "rpc_read"
                        ELSE "rpc_insert"]]
  /\ UNCHANGED <<bvars, wallets, wallet_transactions, uuids, requests>>

\* IF NOT v_wallet_exists THEN INSERT INTO wallets ... END IF
RpcInsert(p) ==
  /\ proc[p].pc = "rpc_insert"
  /\ ~InsertLocked(p, proc[p].userId)
  /\ IF PrimaryKeyViolation(proc[p].userId)
     THEN Abort(p, MsgDuplicateKey)
     ELSE /\ proc' = [proc EXCEPT ![p] = [@ EXCEPT !.inserted = TRUE,
                                                  !.pc = "rpc_read"]]
          /\ UNCHANGED <<bvars, wallets, wallet_transactions, now, uuids, requests>>

\* v_new_balance := v_current_balance + p_amount, or - p_amount
NewBalance(current, amount, type) ==
  IF type = "credit" THEN current + amount ELSE current - amount

\* A candidate balance of 0 is refused as well.
InsufficientFundsAtZero(type, new_balance) ==
  type = "debit" /\ new_balance <= 0

\* IF v_new_balance < 0 THEN RAISE EXCEPTION 'Insufficient funds ...'
InsufficientFunds(type, new_balance) ==
  type = "debit" /\ ~NonNegative(new_balance)

\* The ELSE branch that raises is missing: any other type is taken as a
\* debit without a funds check.
RpcReadAnyType(p) ==
  /\ proc[p].pc = "rpc_read"
  /\ LET current == IF proc[p].inserted THEN Round2(0)
                    ELSE BalanceOf(proc[p].userId)
         new == NewBalance(current, proc[p].p_amount, proc[p].p_type)
     IN IF InsufficientFunds(proc[p].p_type, new)
        THEN Abort(p, MsgInsufficientFunds)
        ELSE /\ proc' = [proc EXCEPT ![p] = [@ EXCEPT !.v_current_balance = current,
                                                     !.v_new_balance = new,
                                                     !.pc = "rpc_update"]]
             /\ UNCHANGED <<bvars, wallets, wallet_transactions, now, uuids, requests>>

\* SELECT balance INTO v_current_balance, then the new balance and its check.
\* The call sees the wallet row it has inserted itself.
RpcRead(p) ==
  /\ proc[p].pc = "rpc_read"
  /\ LET current == IF proc[p].inserted THEN Round2(0)
                    ELSE BalanceOf(proc[p].userId)
         new == NewBalance(current, proc[p].p_amount, proc[p].p_type)
     IN IF proc[p].p_type \notin {"credit", "debit"}
        THEN Abort(p, MsgInvalidType)
        ELSE IF InsufficientFunds(proc[p].p_type, new)
        THEN Abort(p, MsgInsufficientFunds)
        ELSE /\ proc' = [proc EXCEPT ![p] = [@ EXCEPT !.v_current_balance = current,
                                                     !.v_new_balance = new,
                                                     !.pc = "rpc_update"]]
             /\ UNCHANGED <<bvars, wallets, wallet_transactions, now, uuids, requests>>

\* UPDATE wallets SET balance = v_new_balance: waits for the row lock, and a
\* row that breaks CHECK (balance >= 0) aborts the call.
RpcUpdate(p) ==
  /\ proc[p].pc = "rpc_update"
  /\ ~RowLocked(p, proc[p].userId)
  /\ IF ~NonNegative(Round2(proc[p].v_new_balance))
     THEN Abort(p, MsgCheckViolation)
     ELSE /\ proc' = [proc EXCEPT ![p] = [@ EXCEPT !.updated = TRUE,
                                                  !.pc = "rpc_txn"]]
          /\ UNCHANGED <<bvars, wallets, wallet_transactions, now, uuids, requests>>

\* The tables after the call's commit: its wallet insert, its balance update
\* and its transaction row become visible together.
Commit(p) ==
  <<UpdateWallet(IF proc[p].inserted THEN InsertWallet(wallets, proc[p].userId)
                 ELSE wallets,
                 proc[p].userId, proc[p].v_new_balance),
    InsertTransaction(wallet_transactions, uuids + 1, proc[p].userId,
                      proc[p].p_amount, proc[p].p_type, proc[p].p_description,
                      proc[p].p_reference_id, proc[p].started)>>

\* INSERT INTO wallet_transactions ..., RETURN v_result, and the commit
RpcCommit(p) ==
  /\ proc[p].pc = "rpc_txn"
  /\ uuids' = uuids + 1
  /\ wallets' = Commit(p)[1]
  /\ wallet_transactions' = Commit(p)[2]
  /\ proc' = [proc EXCEPT ![p] = [@ EXCEPT !.v_transaction_id = uuids + 1,
                                          !.inserted = FALSE,
                                          !.updated = FALSE,
                                          !.pc = "post_respond"]]
  /\ UNCHANGED <<bvars, now, requests>>

\* A statement of the call fails in the storage layer: the call is aborted.
RpcFail(p) ==
  /\ proc[p].pc \in {"rpc_exists", "rpc_insert", "rpc_read", "rpc_update", "rpc_txn"}
  /\ Abort(p, MsgStorageFailure)

\* v_result := jsonb_build_object(...), which the handler sends as the body
\* of the 200 response.
Result(p) ==
  [transaction_id |-> proc[p].v_transaction_id,
   user_id |-> proc[p].userId,
   previous_balance |-> proc[p].v_current_balance,
   new_balance |-> proc[p].v_new_balance,
   amount |-> proc[p].p_amount,
   type |-> proc[p].p_type,
   description |-> proc[p].p_description,
   reference_id |-> proc[p].p_reference_id,
   created_at |-> proc[p].started]

\* if (error) { if (error.message.includes('insufficient funds')) 400 else 500 }
\* else 200
PostStatus(error) ==
  IF error # NoError
  THEN IF Includes(error, InsufficientFundsNeedle) THEN 400 ELSE 500
  ELSE 200

PostRespond(p) ==
  /\ proc[p].pc = "post_respond"
  /\ proc' = [proc EXCEPT ![p] = [@ EXCEPT !.status = PostStatus(proc[p].error),
                                          !.pc = "done"]]
  /\ UNCHANGED <<bvars, wallets, wallet_transactions, now, uuids, requests>>

\* The response has been sent: the slot is free again.
Return(p) ==
  /\ proc[p].pc = "done"
  /\ proc' = [proc EXCEPT ![p] = IdleProc]
  /\ UNCHANGED <<bvars, wallets, wallet_transactions, now, uuids, requests>>

\* ------------------------------------------------------------- GET /wallet
GetRequest(p, authorization, u, limit, offset) ==
  /\ Free(p)
  /\ requests' = requests + 1
  /\ proc' = [proc EXCEPT ![p] = [IdleProc EXCEPT !.method = "GET",
                                                 !.authorization = authorization,
                                                 !.userId = u,
                                                 !.limit = limit,
                                                 !.offset = offset,
                                                 !.pc = "get_select"]]
  /\ UNCHANGED <<bvars, wallets, wallet_transactions, now, uuids>>

\* The result of the wallet select is not looked at: the insert always runs.
GetSelectNeverFinds(p) ==
  /\ proc[p].pc = "get_select"
  /\ proc' = [proc EXCEPT ![p] = [@ EXCEPT !.pc = "get_insert"]]
  /\ UNCHANGED <<bvars, wallets, wallet_transactions, now, uuids, requests>>

\* .from('wallets').select('balance').eq('user_id', userId).single():
\* anything but exactly one row is error PGRST116 and no wallet.
GetSelect(p) ==
  /\ proc[p].pc = "get_select"
  /\ LET one == Cardinality(WalletRows(wallets, proc[p].userId)) = 1
     IN proc' = [proc EXCEPT ![p] =
          [@ EXCEPT !.found = one,
                    !.balance = IF one THEN BalanceOf(proc[p].userId) ELSE 0,
                    !.pc = IF one THEN "get_txs" ELSE "get_insert"]]
  /\ UNCHANGED <<bvars, wallets, wallet_transactions, now, uuids, requests>>

\* The insert is an upsert: an existing wallet row is set back to balance 0.
GetInsertUpsert(p) ==
  /\ proc[p].pc = "get_insert"
  /\ ~InsertLocked(p, proc[p].userId)
  /\ wallets' = IF HasWallet(proc[p].userId)
                THEN UpdateWallet(wallets, proc[p].userId, 0)
                ELSE InsertWallet(wallets, proc[p].userId)
  /\ proc' = [proc EXCEPT ![p] =
       [@ EXCEPT !.created = TRUE,
                 !.balance = BalanceIn(wallets', proc[p].userId),
                 !.pc = "get_txs"]]
  /\ UNCHANGED <<bvars, wallet_transactions, now, uuids, requests>>

\* if (!wallet) insert { user_id, balance: 0 }; createError is answered 500,
\* else balance = newWallet.balance
GetInsert(p) ==
  /\ proc[p].pc = "get_insert"
  /\ ~InsertLocked(p, proc[p].userId)
  /\ IF PrimaryKeyViolation(proc[p].userId)
     THEN /\ proc' = [proc EXCEPT ![p] = [@ EXCEPT !.error = MsgDuplicateKey,
                                                  !.status = 500,
                                                  !.pc = "done"]]
          /\ wallets' = wallets
     ELSE /\ wallets' = InsertWallet(wallets, proc[p].userId)
          /\ proc' = [proc EXCEPT ![p] =
               [@ EXCEPT !.created = TRUE,
                         !.balance = BalanceIn(wallets', proc[p].userId),
                         !.pc = "get_txs"]]
  /\ UNCHANGED <<bvars, wallet_transactions, now, uuids, requests>>

\* const { limit = 10, offset = 0 } = req.query: the default replaces a
\* parameter that is undefined, and only that.
OrDefault(v, d) == IF v.t = "undefined" THEN Num(d * Scale) ELSE v

\* Number(v) as a count of rows. Numbers are kept in units of 1/Scale; the
\* query parameters sent are whole numbers, so the division is exact.
Count(v) == ToNumber(v).n \div Scale

QueryLimit(p) == Count(OrDefault(proc[p].limit, DefaultLimit))
QueryOffset(p) == Count(OrDefault(proc[p].offset, DefaultOffset))

\* .from('wallet_transactions').select('*').eq('user_id', userId)
\*   .order('created_at', { ascending: false })
\*   .range(Number(offset), Number(offset) + Number(limit) - 1)
GetTransactions(p) ==
  /\ proc[p].pc = "get_txs"
  /\ proc' = [proc EXCEPT ![p] =
       [@ EXCEPT !.transactions =
                    Range(OrderByCreatedAtDesc(UserTransactions(proc[p].userId)),
                          QueryOffset(p), QueryOffset(p) + QueryLimit(p) - 1),
                 !.pc = "get_count"]]
  /\ UNCHANGED <<bvars, wallets, wallet_transactions, now, uuids, requests>>

\* select('*', { count: 'exact', head: true }), then the 200 response
GetCount(p) ==
  /\ proc[p].pc = "get_count"
  /\ proc' = [proc EXCEPT ![p] =
       [@ EXCEPT !.total = Len(UserTransactions(proc[p].userId)),
                 !.pagination_limit = QueryLimit(p),
                 !.pagination_offset = QueryOffset(p),
                 !.status = 200,
                 !.pc = "done"]]
  /\ UNCHANGED <<bvars, wallets, wallet_transactions, now, uuids, requests>>

\* countError is only logged: total is totalCount ?? 0 and the answer is 200
GetCountFail(p) ==
  /\ proc[p].pc = "get_count"
  /\ proc' = [proc EXCEPT ![p] = [@ EXCEPT !.total = 0,
                                          !.countError = TRUE,
                                          !.pagination_limit = QueryLimit(p),
                                          !.pagination_offset = QueryOffset(p),
                                          !.status = 200,
                                          !.pc = "done"]]
  /\ UNCHANGED <<bvars, wallets, wallet_transactions, now, uuids, requests>>

\* walletError other than PGRST116, createError or transactionsError: 500
GetFail(p) ==
  /\ proc[p].pc \in {"get_select", "get_insert", "get_txs"}
  /\ proc' = [proc EXCEPT ![p] = [@ EXCEPT !.error = MsgStorageFailure,
                                          !.status = 500,
                                          !.pc = "done"]]
  /\ UNCHANGED <<bvars, wallets, wallet_transactions, now, uuids, requests>>

\* ------------------------------------------- registration and social login
\* register.ts: insert { user_id, balance: 0 } into wallets for the user just
\* signed up; walletError is logged and the request answered 201 all the same.
Register(u) ==
  /\ ~InsertLocked(0, u)
  /\ wallets' = IF PrimaryKeyViolation(u) THEN wallets ELSE InsertWallet(wallets, u)
  /\ UNCHANGED <<bvars, wallet_transactions, proc, now, uuids, requests>>

\* social-login.ts: the same insert when the user has no profile yet; its
\* result is not looked at.
SocialLogin(u) ==
  /\ ~InsertLocked(0, u)
  /\ wallets' = IF PrimaryKeyViolation(u) THEN wallets ELSE InsertWallet(wallets, u)
  /\ UNCHANGED <<bvars, wallet_transactions, proc, now, uuids, requests>>

\* ----------------------------------------------------------- specification
\* Requests arrive while the budget lasts, on any free slot: the handlers of
\* different requests interleave at every storage call.
\* withAuth(handler) on a POST: req.userId = userId; return handler(req, res)
WithAuthPost(p, authorization) ==
  /\ GetUserFromRequest(authorization) # NoUser
  /\ \E amount \in AmountInputs, type \in TypeInputs,
        description \in DescriptionInputs, reference_id \in ReferenceInputs :
          PostRequest(p, authorization, GetUserFromRequest(authorization),
                      amount, type, description, reference_id)

\* withAuth(handler) on a GET
WithAuthGet(p, authorization) ==
  /\ GetUserFromRequest(authorization) # NoUser
  /\ \E limit \in LimitInputs, offset \in OffsetInputs :
        GetRequest(p, authorization, GetUserFromRequest(authorization),
                   limit, offset)

Post(p) ==
  /\ requests < MaxRequests
  /\ \E authorization \in AuthInputs :
        \/ WithAuthPost(p, authorization)
        \/ Unauthorized(p, "POST", authorization)

Rpc(p) ==
  \/ RpcExists(p)
  \/ RpcInsert(p)
  \/ RpcRead(p)
  \/ RpcUpdate(p)
  \/ RpcCommit(p)
  \/ RpcFail(p)
  \/ PostRespond(p)

GetSteps(p) ==
  \/ GetSelect(p)
  \/ GetInsert(p)
  \/ GetTransactions(p)
  \/ GetCount(p)
  \/ GetCountFail(p)
  \/ GetFail(p)

Get(p) ==
  \/ /\ requests < MaxRequests
     /\ \E authorization \in AuthInputs :
           \/ WithAuthGet(p, authorization)
           \/ Unauthorized(p, "GET", authorization)
  \/ GetSteps(p)

Next ==
  \/ \E p \in Procs : Post(p) \/ Rpc(p) \/ Get(p) \/ Return(p)
  \/ \E u \in Users : Register(u) \/ SocialLogin(u)

Spec == Init /\ [][Next]_vars

\* One caller, one call after the other: a POST /wallet is accepted only when
\* the one before it has been answered.
SeqPost ==
  /\ requests < MaxSeqRequests
  /\ \E authorization \in AuthInputs : WithAuthPost(1, authorization)

NextSeq == SeqPost \/ Rpc(1) \/ Return(1)

SpecSeq == Init /\ [][NextSeq]_vars

\* One client at a time, authenticated, sending valid bodies and paging
\* through the history: a request is accepted only when the one before it has
\* been answered.
ApiPost ==
  /\ requests < MaxApiRequests
  /\ \E authorization \in AuthInputs, b \in Bodies :
        /\ GetUserFromRequest(authorization) # NoUser
        /\ PostRequest(1, authorization, GetUserFromRequest(authorization),
                       b.amount, b.type, b.description, b.reference_id)

ApiGet ==
  /\ requests < MaxApiRequests
  /\ \E authorization \in AuthInputs, limit \in QueryInputs,
        offset \in QueryInputs :
        /\ GetUserFromRequest(authorization) # NoUser
        /\ GetRequest(1, authorization, GetUserFromRequest(authorization),
                      limit, offset)

NextApi == ApiPost \/ ApiGet \/ Rpc(1) \/ GetSteps(1) \/ Return(1)

SpecApi == Init /\ [][NextApi]_vars

\* update_wallet_balance called directly, one call after the other, with any
\* text as p_type: the function is what is under test, not the handler.
EngineAmounts == {HalfCent, Scale}
EngineTypes == {"credit", "debit", "refund"}

CallEngine(p, p_user_id, p_amount, p_type) ==
  /\ Free(p)
  /\ requests < MaxEngineCalls
  /\ requests' = requests + 1
  /\ proc' = [proc EXCEPT ![p] = [IdleProc EXCEPT !.method = "RPC",
                                                 !.userId = p_user_id,
                                                 !.p_amount = p_amount,
                                                 !.p_type = p_type,
                                                 !.pc = "rpc_exists"]]
  /\ UNCHANGED <<bvars, wallets, wallet_transactions, now, uuids>>

Engine(p) ==
  \/ RpcExists(p)
  \/ RpcInsert(p)
  \/ RpcRead(p)
  \/ RpcUpdate(p)
  \/ RpcCommit(p)
  \/ RpcFail(p)

\* RETURN v_result, or the exception, reaches the caller.
EngineReturn(p) ==
  /\ proc[p].pc = "post_respond"
  /\ proc' = [proc EXCEPT ![p] = IdleProc]
  /\ UNCHANGED <<bvars, wallets, wallet_transactions, now, uuids, requests>>

NextEngine ==
  \/ \E u \in Users, p_amount \in EngineAmounts, p_type \in EngineTypes :
        CallEngine(1, u, p_amount, p_type)
  \/ Engine(1)
  \/ EngineReturn(1)

SpecEngine == Init /\ [][NextEngine]_vars

\* ------------------------------------------- /bookings/[id]: PATCH, DELETE
\* The state of the wallet, which no booking operation touches.
wvars == <<wallets, wallet_transactions, proc, now, uuids>>

\* Bodies of a PATCH: a status, notes, or both.
PatchBodies ==
  {[status |-> Str("confirmed"), notes |-> Undefined],
   [status |-> Str("in_progress"), notes |-> Undefined],
   [status |-> Str("completed"), notes |-> Undefined],
   [status |-> Str("cancelled"), notes |-> Undefined],
   [status |-> Str("confirmed"), notes |-> Str("n")],
   [status |-> Undefined, notes |-> Str("n")]}
NoBody == [status |-> Undefined, notes |-> Undefined]

FreeCall(c) ==
  calls[c].pc = "idle" /\ \A d \in Procs : d < c => calls[d].pc # "idle"

\* withAuth(handler): a request on booking id by the user of the token
BookingRequest(c, authorization, method, id, body) ==
  /\ FreeCall(c)
  /\ requests < MaxBookingRequests
  /\ GetUserFromRequest(authorization) # NoUser
  /\ requests' = requests + 1
  /\ calls' = [calls EXCEPT ![c] =
       [IdleCall EXCEPT !.pc = "b_select", !.method = method,
                        !.userId = GetUserFromRequest(authorization),
                        !.id = id, !.status = body.status,
                        !.notes = body.notes]]
  /\ UNCHANGED <<wvars, bookings, notifications>>

\* The check of the role is missing from PATCH.
AfterSelectNoRoleCheck(method, userId, status, booking) ==
  LET isCustomer == booking.customer_id = userId
      isMechanic == booking.mechanic_id = userId
  IN IF ~isCustomer /\ ~isMechanic THEN [pc |-> "done", code |-> 403]
     ELSE IF method = "GET" THEN [pc |-> "b_get", code |-> 0]
     ELSE IF method = "PATCH"
     THEN IF ToBoolean(status)
               /\ status.s \notin ValidTransitions(booking.status)
          THEN [pc |-> "done", code |-> 400]
          ELSE [pc |-> "b_update", code |-> 0]
     ELSE IF booking.status # "pending" /\ booking.status # "confirmed"
     THEN [pc |-> "done", code |-> 400]
     ELSE [pc |-> "b_update", code |-> 0]

\* What the handler does between the select of the booking and its next
\* storage call: the access check, and the checks of the method.
AfterSelect(method, userId, status, booking) ==
  LET isCustomer == booking.customer_id = userId
      isMechanic == booking.mechanic_id = userId
  IN IF ~isCustomer /\ ~isMechanic THEN [pc |-> "done", code |-> 403]
     ELSE IF method = "GET" THEN [pc |-> "b_get", code |-> 0]
     ELSE IF method = "PATCH"
     THEN IF ToBoolean(status)
               /\ status.s \notin ValidTransitions(booking.status)
          THEN [pc |-> "done", code |-> 400]
          ELSE IF ToBoolean(status) /\ status.s \in MechanicOnly
                    /\ ~isMechanic
          THEN [pc |-> "done", code |-> 403]
          ELSE [pc |-> "b_update", code |-> 0]
     ELSE IF booking.status # "pending" /\ booking.status # "confirmed"
     THEN [pc |-> "done", code |-> 400]
     ELSE [pc |-> "b_update", code |-> 0]

\* .from('bookings').select('customer_id, mechanic_id, status').eq('id', id)
\*   .single(), and the checks that follow it
BookingSelect(c) ==
  /\ calls[c].pc = "b_select"
  /\ LET row == bookings[calls[c].id]
         booking == [customer_id |-> row.customer_id,
                     mechanic_id |-> row.mechanic_id, status |-> row.status]
         next == AfterSelect(calls[c].method, calls[c].userId,
                             calls[c].status, booking)
     IN calls' = [calls EXCEPT ![c] =
          [@ EXCEPT !.booking = booking,
                    !.isCustomer = booking.customer_id = calls[c].userId,
                    !.isMechanic = booking.mechanic_id = calls[c].userId,
                    !.pc = next.pc, !.code = next.code]]
  /\ UNCHANGED <<wvars, requests, bookings, notifications>>

\* bookingError: 404
BookingSelectFail(c) ==
  /\ calls[c].pc = "b_select"
  /\ calls' = [calls EXCEPT ![c] = [@ EXCEPT !.pc = "done", !.code = 404]]
  /\ UNCHANGED <<wvars, requests, bookings, notifications>>

\* GET: the details of the booking
BookingGet(c) ==
  /\ calls[c].pc = "b_get"
  /\ calls' = [calls EXCEPT ![c] = [@ EXCEPT !.pc = "done", !.code = 200]]
  /\ UNCHANGED <<wvars, requests, bookings, notifications>>

\* updateData of a PATCH, or { status: 'cancelled' } of a DELETE, on a row
UpdateData(row, method, status, notes) ==
  IF method = "DELETE" THEN [row EXCEPT !.status = "cancelled"]
  ELSE [row EXCEPT !.status = IF ToBoolean(status) THEN status.s ELSE @,
                   !.notes = IF notes # Undefined THEN notes ELSE @]

\* .from('bookings').update(updateData).eq('id', id); a PATCH without a
\* status sends no notification and is answered 200 here.
BookingUpdate(c) ==
  /\ calls[c].pc = "b_update"
  /\ bookings' = [bookings EXCEPT ![calls[c].id] =
       UpdateData(@, calls[c].method, calls[c].status, calls[c].notes)]
  /\ calls' = [calls EXCEPT ![c] =
       IF calls[c].method = "DELETE" \/ ToBoolean(calls[c].status)
       THEN [@ EXCEPT !.pc = "b_notify"]
       ELSE [@ EXCEPT !.pc = "done", !.code = 200]]
  /\ UNCHANGED <<wvars, requests, notifications>>

\* The notification for the other party, then the 200 response
BookingNotify(c) ==
  /\ calls[c].pc = "b_notify"
  /\ notifications' = Append(notifications,
       [user_id |-> IF calls[c].isCustomer THEN calls[c].booking.mechanic_id
                    ELSE calls[c].booking.customer_id,
        type |-> IF calls[c].method = "DELETE" THEN "cancelled"
                 ELSE calls[c].status.s,
        related_id |-> calls[c].id])
  /\ calls' = [calls EXCEPT ![c] = [@ EXCEPT !.pc = "done", !.code = 200]]
  /\ UNCHANGED <<wvars, requests, bookings>>

\* The result of the notification insert is not looked at: 200 all the same
BookingNotifyFail(c) ==
  /\ calls[c].pc = "b_notify"
  /\ calls' = [calls EXCEPT ![c] = [@ EXCEPT !.pc = "done", !.code = 200]]
  /\ UNCHANGED <<wvars, requests, bookings, notifications>>

\* error of the update or of the details select: 500
BookingFail(c) ==
  /\ calls[c].pc \in {"b_get", "b_update"}
  /\ calls' = [calls EXCEPT ![c] = [@ EXCEPT !.pc = "done", !.code = 500]]
  /\ UNCHANGED <<wvars, requests, bookings, notifications>>

BookingReturn(c) ==
  /\ calls[c].pc = "done"
  /\ calls' = [calls EXCEPT ![c] = IdleCall]
  /\ UNCHANGED <<wvars, requests, bookings, notifications>>

Booking(c) ==
  \/ \E authorization \in AuthInputs, id \in BookingIds :
        \/ \E body \in PatchBodies :
              BookingRequest(c, authorization, "PATCH", id, body)
        \/ BookingRequest(c, authorization, "DELETE", id, NoBody)
        \/ BookingRequest(c, authorization, "GET", id, NoBody)
  \/ BookingSelect(c)
  \/ BookingSelectFail(c)
  \/ BookingGet(c)
  \/ BookingUpdate(c)
  \/ BookingNotify(c)
  \/ BookingNotifyFail(c)
  \/ BookingFail(c)
  \/ BookingReturn(c)

NextBooking == \E c \in Procs : Booking(c)

SpecBooking == Init /\ [][NextBooking]_vars

\* ------------------------------------------------------------------ claims
RpcPcs == {"rpc_exists", "rpc_insert", "rpc_read", "rpc_update", "rpc_txn"}

\* The ledger replayed: +amount for a credit, -amount for a debit.
RECURSIVE Replay(_)
Replay(s) ==
  IF s = <<>> THEN 0
  ELSE (IF Head(s).type = "credit" THEN Head(s).amount ELSE -Head(s).amount)
       + Replay(Tail(s))

StoredBalance(u) == IF HasWallet(u) THEN BalanceOf(u) ELSE 0

\* C1: after calls of update_wallet_balance made one after the other from an
\* empty ledger, the stored balance of every user equals the sum of the
\* user's credit amounts minus the sum of the user's debit amounts.
C1_BalanceReconciliation ==
  \A u \in Users : StoredBalance(u) = Replay(UserTransactions(u))

\* C2: every wallet row has a balance >= 0 in every reachable state.
C2_NonNegativeBalance ==
  \A i \in DOMAIN wallets : wallets[i].balance >= 0

\* A debit has been committed and has taken a wallet down to exactly 0.
C2_Witness ==
  \E i \in DOMAIN wallet_transactions :
    /\ wallet_transactions[i].type = "debit"
    /\ HasWallet(wallet_transactions[i].user_id)
    /\ BalanceOf(wallet_transactions[i].user_id) = 0

\* No call of update_wallet_balance for u is open.
Quiet(u) ==
  \A p \in Procs : proc[p].userId = u => proc[p].pc \notin RpcPcs

\* C3: once N concurrent credits of 1.00 on a wallet that started at 0 have
\* all completed, the balance is N.00 and the user has N transaction rows.
C3_NoLostUpdate ==
  \A u \in Users :
    LET t == UserTransactions(u)
    IN (/\ Quiet(u)
        /\ t # <<>>
        /\ \A i \in DOMAIN t : t[i].type = "credit" /\ t[i].amount = Scale)
       => StoredBalance(u) = Len(t) * Scale

\* The call of slot p has read the balance and has not yet committed.
BetweenReadAndCommit(p) == proc[p].pc \in {"rpc_update", "rpc_txn"}

\* C4: two calls of update_wallet_balance for the same user are never both
\* between their balance read and their commit.
C4_PerUserSerialization ==
  \A p, q \in Procs :
    (p # q /\ proc[p].userId = proc[q].userId)
      => ~(BetweenReadAndCommit(p) /\ BetweenReadAndCommit(q))

\* The balance the call of slot p reads at its SELECT balance.
BalanceSeenBy(p) ==
  IF proc[p].inserted THEN 0 ELSE StoredBalance(proc[p].userId)

\* C5: a debit whose amount is greater than the balance it reads is rejected,
\* and the step that rejects it leaves wallets and wallet_transactions as they
\* were and keeps nothing the call had written.
C5_InsufficientFundsRejected ==
  [][\A p \in Procs :
       (/\ proc[p].pc = "rpc_read"
        /\ proc[p].p_type = "debit"
        /\ proc[p].p_amount > BalanceSeenBy(p)
        /\ proc'[p] # proc[p])
       => (/\ proc'[p].pc = "post_respond"
           /\ proc'[p].error # NoError
           /\ ~proc'[p].inserted
           /\ wallets' = wallets
           /\ wallet_transactions' = wallet_transactions)]_vars

\* A debit has been rejected for insufficient funds against a positive balance.
C5_Witness ==
  \E p \in Procs :
    /\ proc[p].pc = "post_respond"
    /\ proc[p].error = MsgInsufficientFunds
    /\ StoredBalance(proc[p].userId) > 0
    /\ proc[p].p_amount > StoredBalance(proc[p].userId)

\* C6: a rejection for insufficient funds is answered 400, and 500 is the
\* answer to the other failures of the call only.
C6_InsufficientFundsIs400 ==
  \A p \in Procs :
    (proc[p].pc = "done" /\ proc[p].method = "POST" /\ proc[p].error # NoError)
      => (proc[p].status = 400 <=> proc[p].error = MsgInsufficientFunds)

\* The amount of a request body is a number, or a string that reads as one.
Numeric(v) ==
  \/ v.t = "number"
  \/ v.t = "string" /\ v.s # "" /\ ~StringToNumber(v.s).nan

\* The bodies C7 calls invalid.
InvalidBody(amount, type) ==
  \/ amount.t \in {"undefined", "null"}
  \/ ~Numeric(amount)
  \/ ToNumber(amount).n <= 0
  \/ type \notin {Str("credit"), Str("debit")}

\* C7: a POST /wallet whose amount is missing, non-numeric, zero or negative,
\* or whose type is not 'credit' or 'debit', is answered 400 and never reaches
\* update_wallet_balance.
C7_ValidationBeforeEngine ==
  \A p \in Procs :
    (proc[p].method = "POST" /\ InvalidBody(proc[p].amount, proc[p].type))
      => (proc[p].pc = "done" /\ proc[p].status = 400 /\ proc[p].error = NoError)

\* u has got a transaction row in this step.
Appended(u) ==
  Len(SelectSeq(wallet_transactions', LAMBDA r : r.user_id = u))
    > Len(UserTransactions(u))

\* C8: a step in which update_wallet_balance fails leaves both tables as they
\* were and discards the wallet insert and the balance update of the call; and
\* in no step does the balance of a wallet row change without a transaction
\* row of its user being appended, or a transaction row appear without the
\* balance written by its call.
C8_AtomicUnderFailure ==
  [][/\ \A p \in Procs :
          (proc[p].pc \in RpcPcs /\ proc'[p].pc = "post_respond"
             /\ proc'[p].error # NoError)
          => (/\ wallets' = wallets
              /\ wallet_transactions' = wallet_transactions
              /\ ~proc'[p].inserted
              /\ ~proc'[p].updated)
     /\ \A u \in Users :
          /\ (HasWallet(u) /\ BalanceIn(wallets', u) # BalanceOf(u)) => Appended(u)
          /\ Appended(u) =>
               \E p \in Procs :
                 /\ proc[p].pc = "rpc_txn"
                 /\ proc[p].userId = u
                 /\ WalletRows(wallets', u) # {}
                 /\ BalanceIn(wallets', u) = Round2(proc[p].v_new_balance)]_vars

\* A first call for a user has failed in storage after its wallet insert and
\* its balance computation, and the user has no wallet row and no transaction.
C8_Witness ==
  \E p \in Procs :
    /\ proc[p].pc = "post_respond"
    /\ proc[p].error = MsgStorageFailure
    /\ ~proc[p].v_wallet_exists
    /\ proc[p].v_new_balance > 0
    /\ ~HasWallet(proc[p].userId)
    /\ UserTransactions(proc[p].userId) = <<>>

\* C9: there is at most one wallet row per user_id in every reachable state.
C9_SingleWalletPerUser ==
  \A u \in Users : Cardinality(WalletRows(wallets, u)) <= 1

\* Two first calls for one user have raced: one has created the wallet row and
\* the insert of the other has been refused.
C9_Witness ==
  \E p \in Procs :
    /\ proc[p].error = MsgDuplicateKey
    /\ Cardinality(WalletRows(wallets, proc[p].userId)) = 1

\* C10: a GET /wallet that finds no wallet row inserts one with balance 0 and
\* answers 200 with balance 0; one that finds the wallet row takes its stored
\* balance, inserts nothing and answers 200 with that balance.
C10_GetCreatesOrReturns ==
  [][\A p \in Procs :
       LET u == proc[p].userId
       IN /\ (proc[p].pc = "get_select" /\ proc'[p].pc # "get_select"
                /\ proc'[p].error = NoError)
             => /\ wallets' = wallets
                /\ IF HasWallet(u)
                   THEN /\ proc'[p].pc = "get_txs"
                        /\ proc'[p].found
                        /\ proc'[p].balance = BalanceOf(u)
                   ELSE proc'[p].pc = "get_insert" /\ ~proc'[p].found
          /\ (proc[p].pc = "get_insert" /\ proc'[p].pc # "get_insert"
                /\ proc'[p].error = NoError)
             => /\ ~HasWallet(u)
                /\ wallets' = Append(wallets, [user_id |-> u, balance |-> 0])
                /\ proc'[p].created
                /\ proc'[p].balance = 0
                /\ proc'[p].pc = "get_txs"
          /\ (proc'[p].method = "GET" /\ proc'[p].pc = "done"
                /\ proc'[p].status = 200)
             => /\ proc'[p].found # proc'[p].created
                /\ proc'[p].created => proc'[p].balance = 0
                /\ WalletRows(wallets', u) # {}]_vars

\* Two GET /wallet of one user have been answered 200: one created the wallet,
\* the other found it.
C10_Witness ==
  \E p, q \in Procs :
    /\ proc[p].method = "GET" /\ proc[p].pc = "done" /\ proc[p].status = 200
    /\ proc[q].method = "GET" /\ proc[q].pc = "done" /\ proc[q].status = 200
    /\ proc[p].userId = proc[q].userId
    /\ proc[p].created /\ proc[p].balance = 0
    /\ proc[q].found /\ ~proc[q].created

\* ------------------------------------------------------------------- C19
\* A header is a valid bearer token when it is "Bearer " followed by the
\* token of a session of the identity provider.
ValidBearer(authorization) ==
  \E x \in Sessions : authorization = BearerPrefix \o x.token

BearerUser(authorization) ==
  (CHOOSE x \in Sessions : authorization = BearerPrefix \o x.token).user

\* C19: a request without a valid bearer token is answered 401, never enters
\* the wallet handler and its arrival leaves wallets and transactions as they
\* were; a request in the handler carries the user id of its verified token.
C19_AuthenticationGate ==
  [][\A p \in Procs :
       /\ (proc'[p].pc # "idle" /\ ~ValidBearer(proc'[p].authorization))
            => /\ proc'[p].pc = "done"
               /\ proc'[p].status = 401
               /\ proc'[p].userId = NoUser
               /\ (proc[p] # proc'[p]
                     => UNCHANGED <<wallets, wallet_transactions>>)
       /\ (proc'[p].pc # "idle" /\ proc'[p].status # 401)
            => /\ ValidBearer(proc'[p].authorization)
               /\ proc'[p].userId = BearerUser(proc'[p].authorization)
               /\ proc'[p].userId \in Users]_vars

\* An unknown bearer token was answered 401 while a wallet exists.
C19_Witness ==
  \E p \in Procs :
    /\ proc[p].authorization = BearerPrefix \o <<"x">>
    /\ proc[p].status = 401
    /\ wallets # <<>>

\* ------------------------------------------------------------------- C12
\* C12: no storage failure is swallowed: a GET /wallet answered 200 carries
\* as total the number of transaction rows of the caller at the time of the
\* count.
C12_NoSwallowedFailure ==
  [][\A p \in Procs :
       (proc[p].pc = "get_count" /\ proc'[p].status = 200)
         => proc'[p].total = Len(UserTransactions(proc[p].userId))]_vars

\* ------------------------------------------------------------------- C17
Rows(t) == {t[i] : i \in DOMAIN t}

\* C17: the ledger is append-only: every step keeps every transaction row of
\* every user, and a row keeps all its fields (no row of the next state has
\* the id of an existing row with another content).
C17_AppendOnly ==
  [][/\ \A u \in Users :
          {r \in Rows(wallet_transactions) : r.user_id = u}
            \subseteq {r \in Rows(wallet_transactions') : r.user_id = u}
     /\ \A r \in Rows(wallet_transactions), x \in Rows(wallet_transactions') :
          x.id = r.id => x = r
     /\ Len(wallet_transactions') >= Len(wallet_transactions)]_vars

\* A user has two transaction rows: the second was appended to a ledger that
\* held the first.
C17_Witness ==
  \E u \in Users : Len(UserTransactions(u)) >= 2

\* ------------------------------------------------------------------- C18
\* The user a request in slot p is authenticated as, in a step of that slot.
Caller(p) ==
  IF proc[p].pc = "idle" THEN proc'[p].userId ELSE proc[p].userId

\* No other request of user a is being handled.
Alone(p, a) ==
  \A q \in Procs \ {p} : proc[q].userId = a => proc[q].pc \in {"idle", "done"}

CreatedWallet(q) ==
  /\ proc[q].pc = "done" /\ proc[q].status = 200
  /\ \/ proc[q].method = "GET" /\ proc[q].created
     \/ proc[q].method = "POST" /\ ~proc[q].v_wallet_exists

\* C20: get-or-create is idempotent under a race: when two first-time
\* operations of one user run concurrently and one of them has created the
\* wallet row, the other is not answered with a failure caused by the wallet
\* row existing already.
C20_IdempotentGetOrCreate ==
  \A p, q \in Procs :
    (p # q /\ proc[p].userId = proc[q].userId /\ CreatedWallet(q))
      => ~(proc[p].pc = "done" /\ proc[p].status = 500
             /\ proc[p].error = MsgDuplicateKey)

\* ------------------------------------------------------------------- C11
\* The number a query parameter stands for, the default when it is absent.
Asked(v, default) ==
  CASE v = Undefined -> default
    [] v = Str("1") -> 1
    [] v = Str("2") -> 2

Min(a, b) == IF a < b THEN a ELSE b

\* C11: the page read by GET /wallet holds rows of the caller only, as many
\* as there are at positions offset .. offset+limit-1 of the caller's rows,
\* and its i-th row is the one with offset+i-1 of the caller's rows created
\* after it (limit 10 and offset 0 when absent); the 200 response carries
\* that page and echoes limit and offset.
C11_PageOfOwnTransactions ==
  [][\A p \in Procs :
       LET a == proc[p].userId
           limit == Asked(proc[p].limit, 10)
           offset == Asked(proc[p].offset, 0)
           own == {r \in Rows(wallet_transactions) : r.user_id = a}
           page == proc'[p].transactions
           left == IF Cardinality(own) > offset
                   THEN Cardinality(own) - offset ELSE 0
       IN /\ (proc[p].pc = "get_txs" /\ proc'[p].pc = "get_count")
               => /\ Len(page) = Min(limit, left)
                  /\ \A i \in DOMAIN page :
                       /\ page[i] \in own
                       /\ Cardinality({r \in own :
                             r.created_at > page[i].created_at}) = offset + i - 1
          /\ (proc[p].pc = "get_count" /\ proc'[p].status = 200)
               => /\ page = proc[p].transactions
                  /\ proc'[p].pagination_limit = limit
                  /\ proc'[p].pagination_offset = offset]_vars

\* A GET /wallet with limit 1 and offset 1 has been answered 200 with one
\* row, the caller having two rows and another user having rows too.
C11_Witness ==
  \E p \in Procs :
    /\ proc[p].method = "GET" /\ proc[p].status = 200
    /\ proc[p].limit = Str("1") /\ proc[p].offset = Str("1")
    /\ Len(proc[p].transactions) = 1
    /\ Len(UserTransactions(proc[p].userId)) = 2
    /\ \E b \in Users \ {proc[p].userId} : UserTransactions(b) # <<>>

\* ------------------------------------------------------------------- C13
\* The POST /wallet in slot p has been answered 200.
Succeeded(p) ==
  proc[p].method = "POST" /\ proc[p].pc = "done" /\ proc[p].status = 200

\* The transaction row appended by the call of slot p.
NewRow(p) ==
  CHOOSE r \in Rows(wallet_transactions) : r.id = proc[p].v_transaction_id

ExpectedDescription(p) ==
  IF proc[p].description \in {Undefined, Str("")}
  THEN IF proc[p].type = Str("credit") THEN "Wallet top-up"
       ELSE "Wallet deduction"
  ELSE proc[p].description.s

\* C13: a successful POST /wallet without a description, or with an empty
\* one, has stored and returned 'Wallet top-up' for a credit and 'Wallet
\* deduction' for a debit; a description that was given is stored and
\* returned as it is.
C13_DefaultDescription ==
  \A p \in Procs :
    Succeeded(p)
      => /\ \E r \in Rows(wallet_transactions) : r.id = proc[p].v_transaction_id
         /\ NewRow(p).description = ExpectedDescription(p)
         /\ Result(p).description = ExpectedDescription(p)

\* A debit sent with an empty description has succeeded, and the ledger also
\* holds a row with the description the caller gave.
C13_Witness ==
  \E p \in Procs :
    /\ Succeeded(p)
    /\ proc[p].description = Str("") /\ proc[p].type = Str("debit")
    /\ NewRow(p).description = "Wallet deduction"
    /\ \E r \in Rows(wallet_transactions) : r.description = "memo"

\* ------------------------------------------------------------------- C14
\* C14: the transaction row a POST /wallet appends has a reference id that
\* is not null: the one the caller sent when there is one, and otherwise an
\* identifier that no row of the ledger has as its reference id.
C14_ReferenceId ==
  [][\A p \in Procs :
       (proc[p].pc = "rpc_txn" /\ proc'[p].pc = "post_respond"
          /\ proc'[p].error = NoError)
         => \E r \in Rows(wallet_transactions') \ Rows(wallet_transactions) :
              /\ Rows(wallet_transactions')
                   = Rows(wallet_transactions) \cup {r}
              /\ r.reference_id # 0
              /\ IF proc[p].reference_id = Undefined
                 THEN \A x \in Rows(wallet_transactions) :
                        x.reference_id # r.reference_id
                 ELSE r.reference_id = proc[p].reference_id.n]_vars

\* The ledger holds a row with the reference id a caller sent and a later
\* row with a generated one.
C14_Witness ==
  \E r, x \in Rows(wallet_transactions) :
    /\ r.reference_id = 90
    /\ x.created_at > r.created_at
    /\ x.reference_id \notin {0, 90}

\* ------------------------------------------------------------------- C15
\* C15: a POST /wallet whose reference id is already that of a row of the
\* ledger is a new transaction all the same: when it passes the funds check
\* the balance of its user changes by its amount, and one row with that
\* reference id and an id that no row has is appended.
C15_NoDuplicateDetection ==
  [][\A p \in Procs :
       (/\ proc[p].pc = "rpc_txn" /\ proc'[p].pc = "post_respond"
        /\ proc'[p].error = NoError
        /\ \E x \in Rows(wallet_transactions) :
             x.reference_id = proc[p].p_reference_id)
         => LET a == proc[p].userId
                before == IF HasWallet(a) THEN BalanceOf(a) ELSE 0
            IN /\ BalanceIn(wallets', a)
                    = NewBalance(before, proc[p].p_amount, proc[p].p_type)
               /\ \E r \in Rows(wallet_transactions') :
                    /\ Rows(wallet_transactions')
                         = Rows(wallet_transactions) \cup {r}
                    /\ r.reference_id = proc[p].p_reference_id
                    /\ \A x \in Rows(wallet_transactions) : x.id # r.id]_vars

\* ------------------------------------------------------------------- C16
\* C16: the result of a successful call carries as previous_balance the
\* balance stored when the call takes place (0 without a wallet), as
\* new_balance that balance plus the amount of a credit or minus the amount
\* of a debit, and the id, user, amount, type, description and reference id
\* of the transaction row the call has appended.
C16_ResultOfMutation ==
  [][\A p \in Procs :
       (proc[p].pc = "rpc_txn" /\ proc'[p].pc = "post_respond"
          /\ proc'[p].error = NoError)
         => LET res == Result(p)'
                before == StoredBalance(proc[p].userId)
            IN /\ res.previous_balance = before
               /\ res.new_balance
                    = NewBalance(res.previous_balance, res.amount, res.type)
               /\ \E r \in Rows(wallet_transactions') \ Rows(wallet_transactions) :
                    /\ r.id = res.transaction_id
                    /\ r.user_id = res.user_id
                    /\ r.amount = res.amount
                    /\ r.type = res.type
                    /\ r.description = res.description
                    /\ r.reference_id = res.reference_id]_vars

\* ------------------------------------------------------------------- C21
\* The call of slot p for user u commits in this step.
Commits(p, u) ==
  /\ proc[p].userId = u
  /\ proc[p].pc = "rpc_txn" /\ proc'[p].pc = "post_respond"
  /\ proc'[p].error = NoError

\* C21: the balance of an existing wallet row changes only in the step in
\* which a call of update_wallet_balance for its user commits; any other
\* step keeps every wallet row, and a wallet row that appears outside such a
\* commit is the only one of its user and has balance 0.
C21_BalanceOnlyThroughEngine ==
  [][\A u \in Users :
       (~\E p \in Procs : Commits(p, u))
         => /\ HasWallet(u)
                 => /\ Cardinality(WalletRows(wallets', u))
                         = Cardinality(WalletRows(wallets, u))
                    /\ BalanceIn(wallets', u) = BalanceOf(u)
            /\ (~HasWallet(u) /\ WalletRows(wallets', u) # {})
                 => /\ Cardinality(WalletRows(wallets', u)) = 1
                    /\ BalanceIn(wallets', u) = 0]_vars

\* A GET /wallet found no wallet, a POST of the same user then created one
\* with a positive balance, and the insert of the GET has been refused: the
\* balance is still the one the POST wrote.
C21_Witness ==
  \E p \in Procs :
    /\ proc[p].method = "GET" /\ proc[p].error = MsgDuplicateKey
    /\ ~proc[p].found
    /\ HasWallet(proc[p].userId) /\ BalanceOf(proc[p].userId) > 0

\* ------------------------------------------------------------------- C22
\* C22: a call of update_wallet_balance for a user without a wallet row that
\* is a debit or has an invalid type fails, and a call that fails after
\* having found no wallet row keeps nothing: after the failing step its user
\* has no wallet row and no transaction row.
C22_FailedFirstMutationLeavesNoWallet ==
  [][\A p \in Procs :
       LET u == proc[p].userId
       IN /\ (proc[p].pc = "rpc_read" /\ proc[p].inserted
                /\ proc[p].p_type # "credit" /\ proc'[p] # proc[p])
               => proc'[p].pc = "post_respond" /\ proc'[p].error # NoError
          /\ (proc[p].pc \in {"rpc_insert", "rpc_read", "rpc_update", "rpc_txn"}
                /\ ~proc[p].v_wallet_exists
                /\ proc'[p].pc = "post_respond" /\ proc'[p].error # NoError)
               => /\ ~proc'[p].inserted
                  /\ WalletRows(wallets', u) = {}
                  /\ \A r \in Rows(wallet_transactions') : r.user_id # u]_vars

\* A first call that was a debit has failed for insufficient funds after its
\* wallet insert, and its user has no wallet row.
C22_Witness ==
  \E p \in Procs :
    /\ proc[p].pc = "post_respond"
    /\ proc[p].error = MsgInsufficientFunds
    /\ ~proc[p].v_wallet_exists
    /\ ~HasWallet(proc[p].userId)
    /\ wallets # <<>>

\* ------------------------------------------------------------------- C23
\* C23: a call of update_wallet_balance with a type other than 'credit' or
\* 'debit' fails at the type check, the failing step leaves both tables as
\* they were and keeps nothing of the call; such a call never reaches the
\* balance update, and every transaction row is a credit or a debit.
C23_InvalidTypeRejected ==
  [][/\ \A p \in Procs :
          /\ (proc[p].pc = "rpc_read"
                /\ proc[p].p_type \notin {"credit", "debit"}
                /\ proc'[p] # proc[p])
               => /\ proc'[p].pc = "post_respond"
                  /\ proc'[p].error \in {MsgInvalidType, MsgStorageFailure}
                  /\ ~proc'[p].inserted /\ ~proc'[p].updated
                  /\ wallets' = wallets
                  /\ wallet_transactions' = wallet_transactions
          /\ proc'[p].pc \in {"rpc_update", "rpc_txn"}
               => proc'[p].p_type \in {"credit", "debit"}
     /\ \A r \in Rows(wallet_transactions') : r.type \in {"credit", "debit"}]_vars

\* A call with type 'refund' on a wallet with a positive balance has failed
\* at the type check.
C23_Witness ==
  \E p \in Procs :
    /\ proc[p].pc = "post_respond"
    /\ proc[p].p_type = "refund"
    /\ proc[p].error = MsgInvalidType
    /\ HasWallet(proc[p].userId) /\ BalanceOf(proc[p].userId) > 0

\* ------------------------------------------------------------------- C24
\* C24: a debit whose amount equals the balance it reads passes the funds
\* check with candidate balance 0, and when it commits the balance of its
\* user is 0 and one debit row is appended; a call is rejected for
\* insufficient funds only when it is a debit whose candidate balance is
\* below 0.
C24_FundsCheckBoundary ==
  [][\A p \in Procs :
       LET u == proc[p].userId
           exact == proc[p].p_type = "debit" /\ proc[p].v_new_balance = 0
       IN /\ (proc[p].pc = "rpc_read" /\ proc[p].p_type = "debit"
                /\ proc[p].p_amount = BalanceSeenBy(p) /\ proc'[p] # proc[p])
               => \/ proc'[p].pc = "rpc_update" /\ proc'[p].v_new_balance = 0
                  \/ proc'[p].error = MsgStorageFailure
          /\ (Commits(p, u) /\ exact)
               => /\ BalanceIn(wallets', u) = 0
                  /\ \E r \in Rows(wallet_transactions') :
                       /\ Rows(wallet_transactions')
                            = Rows(wallet_transactions) \cup {r}
                       /\ r \notin Rows(wallet_transactions)
                       /\ r.type = "debit" /\ r.user_id = u
          /\ (proc[p].error = NoError /\ proc'[p].error = MsgInsufficientFunds)
               => /\ proc[p].p_type = "debit"
                  /\ BalanceSeenBy(p) - proc[p].p_amount < 0]_vars

\* A debit of 1.00 against a balance of 1.00 has been answered 200 and the
\* balance is 0.
C24_Witness ==
  \E p \in Procs :
    /\ Succeeded(p)
    /\ proc[p].p_type = "debit" /\ proc[p].p_amount = Scale
    /\ proc[p].v_current_balance = Scale
    /\ BalanceOf(proc[p].userId) = 0

\* ------------------------------------------------------------------- C25
\* C25: every transaction row has an amount greater than 0.
C25_PositiveStoredAmounts ==
  \A r \in Rows(wallet_transactions) : r.amount > 0

\* ------------------------------------------------------------------- C26
\* C26: the values of one GET /wallet answered 200 describe one ledger
\* state. In one state the page holds the rows that the total counts from
\* the offset on, up to the limit: so, when the count itself has not failed,
\* the page has as many rows as total, offset and limit allow.
C26_ConsistentSnapshot ==
  \A p \in Procs :
    (proc[p].method = "GET" /\ proc[p].status = 200 /\ ~proc[p].countError)
      => LET left == IF proc[p].total > proc[p].pagination_offset
                     THEN proc[p].total - proc[p].pagination_offset ELSE 0
         IN Len(proc[p].transactions) = Min(proc[p].pagination_limit, left)

\* ------------------------------------------------------------------- C27
\* C27: when a call commits, the new_balance it returns is the balance
\* stored in the wallet row, the amount it returns is the amount stored in
\* the row it appends, and the stored balance of its user is the sum of the
\* stored credits minus the sum of the stored debits.
C27_StoredMatchesReturned ==
  [][\A p \in Procs :
       Commits(p, proc[p].userId)
         => LET u == proc[p].userId
                res == Result(p)'
            IN /\ res.new_balance = BalanceIn(wallets', u)
               /\ \E r \in Rows(wallet_transactions') \ Rows(wallet_transactions) :
                    r.amount = res.amount
               /\ BalanceIn(wallets', u)
                    = Replay(SelectSeq(wallet_transactions',
                                       LAMBDA r : r.user_id = u))]_vars

\* ------------------------------------------------------------------- C28
\* The changes of status the table allows.
AllowedChanges ==
  {<<"pending", "confirmed">>, <<"pending", "cancelled">>,
   <<"confirmed", "in_progress">>, <<"confirmed", "cancelled">>,
   <<"in_progress", "completed">>, <<"in_progress", "cancelled">>}

\* C28: every change of the stored status of a booking follows the table
\* pending -> confirmed or cancelled, confirmed -> in_progress or cancelled,
\* in_progress -> completed or cancelled; the status of a completed or
\* cancelled booking does not change.
C28_StatusTransitions ==
  [][\A id \in BookingIds :
       bookings'[id].status # bookings[id].status
         => <<bookings[id].status, bookings'[id].status>> \in AllowedChanges]_vars

\* ------------------------------------------------------------------- C29
\* The call of slot c is a PATCH that asks for confirmed, in_progress or
\* completed.
Progress(c) ==
  calls[c].method = "PATCH" /\ calls[c].status.s \in MechanicOnly

\* The call of slot c, made by someone who is not the mechanic of its
\* booking, reads the booking in this step.
ReadByNonMechanic(c) ==
  /\ calls[c].pc = "b_select" /\ calls'[c].booking # NoBooking
  /\ calls[c].userId # bookings[calls[c].id].mechanic_id

\* A step of slot c that changes a booking or the notifications changes the
\* booking of the call only, the caller is its customer or its mechanic, and
\* is its mechanic when the call asks for progress.
ChangesOnlyAsParty(c) ==
  (calls[c] # calls'[c]
     /\ (bookings' # bookings \/ notifications' # notifications))
    => LET b == bookings[calls[c].id]
       IN /\ calls[c].userId \in {b.customer_id, b.mechanic_id}
          /\ Progress(c) => calls[c].userId = b.mechanic_id
          /\ \A id \in BookingIds \ {calls[c].id} : bookings'[id] = bookings[id]

\* C29: a PATCH to confirmed, in_progress or completed by a caller who is
\* not the mechanic of the booking is answered 403 and leaves the bookings
\* and the notifications as they were; bookings and notifications are
\* changed only by the mechanic of the booking for such a PATCH, and only by
\* the customer or the mechanic of the booking for any request.
C29_MechanicOnlyProgress ==
  [][\A c \in Procs :
       /\ (Progress(c) /\ ReadByNonMechanic(c))
            => /\ calls'[c].pc = "done" /\ calls'[c].code = 403
               /\ bookings' = bookings /\ notifications' = notifications
       /\ ChangesOnlyAsParty(c)]_vars

\* C29, amended: such a PATCH by a caller who is not the mechanic is
\* refused and leaves the bookings and the notifications as they were: with
\* 400 when the caller is the customer and the status asked for is not a
\* valid transition from the status read, with 403 otherwise; and changes
\* are made only by the parties of the booking, as in C29.
C29_MechanicOnlyProgressAmended ==
  [][\A c \in Procs :
       /\ (Progress(c) /\ ReadByNonMechanic(c))
            => LET b == bookings[calls[c].id]
                   invalid == /\ calls[c].userId = b.customer_id
                              /\ <<b.status, calls[c].status.s>>
                                   \notin AllowedChanges
               IN /\ calls'[c].pc = "done"
                  /\ calls'[c].code = IF invalid THEN 400 ELSE 403
                  /\ bookings' = bookings /\ notifications' = notifications
       /\ ChangesOnlyAsParty(c)]_vars

\* The customer of a pending booking has asked for 'confirmed' and has been
\* answered 403; the booking is still pending.
C29_Witness ==
  \E c \in Procs :
    /\ calls[c].method = "PATCH" /\ calls[c].status = Str("confirmed")
    /\ calls[c].isCustomer /\ ~calls[c].isMechanic
    /\ calls[c].code = 403
    /\ bookings[calls[c].id].status = "pending"
====
